---- MODULE Spec2Model ----
(***************************************************************************)
(* Model of packages/playwright-ct-core/src/mount.ts: the component-test   *)
(* fixtures `page` and `mount`, the controller-side registry of bound      *)
(* callbacks, the marshalling of callbacks into string tokens, and the     *)
(* remote half of mount / update / unmount that runs inside the page.      *)
(***************************************************************************)
EXTENDS Integers, Sequences, FiniteSets, TLC

(***************************************************************************)
(* Bounds of the exploration.                                              *)
(***************************************************************************)
MaxCalls == 3         \* mount/update/unmount calls per test
MaxPending == 2       \* calls of a test in flight at the same time

(***************************************************************************)
(* JavaScript values.  A value is a record [t, v]: a function, a string    *)
(* (sequence of characters), a number, or a reference to a heap object.    *)
(***************************************************************************)
Fn(f) == [t |-> "fn", v |-> f]
Str(s) == [t |-> "str", v |-> s]
Num(n) == [t |-> "num", v |-> n]
Ref(i) == [t |-> "ref", v |-> i]

\* '__pw_func_' (mount.ts:160, :92, :120)
TokenPrefix == <<"_", "_", "p", "w", "_", "f", "u", "n", "c", "_">>

Digits == <<"0", "1", "2", "3", "4", "5", "6", "7", "8", "9">>

\* Number -> string as string concatenation does it for a non-negative integer.
RECURSIVE NumberToString(_)
NumberToString(n) ==
  IF n < 10 THEN <<Digits[n + 1]>>
  ELSE NumberToString(n \div 10) \o <<Digits[(n % 10) + 1]>>

IsDigit(c) == \E d \in 1..10 : Digits[d] = c
DigitValue(c) == (CHOOSE d \in 1..10 : Digits[d] = c) - 1

NaN == -1

\* Unary plus on a string: '' is 0, a run of decimal digits is its value,
\* anything else (over the alphabet of the model) is NaN.
RECURSIVE DigitsValue(_, _)
DigitsValue(s, acc) ==
  IF s = <<>> THEN acc
  ELSE DigitsValue(Tail(s), acc * 10 + DigitValue(Head(s)))

ToNumber(s) ==
  IF \A i \in 1..Len(s) : IsDigit(s[i]) THEN DigitsValue(s, 0) ELSE NaN

\* String.prototype.startsWith
startsWith(s, p) == Len(s) >= Len(p) /\ SubSeq(s, 1, Len(p)) = p

\* String.prototype.substring(from)
substring(s, from) == SubSeq(s, from + 1, Len(s))

(***************************************************************************)
(* Objects.  An object is a function from its keys to values; Object.entries*)
(* enumerates the keys in insertion order, which for the objects of the    *)
(* model is the order of KeyOrder.                                         *)
(***************************************************************************)
KeyOrder == <<"__pw_type", "type", "id", "props", "slots", "hooksConfig",
              "onClick", "onChange", "label", "default">>

KeyIn(o, k) == k \in DOMAIN o

Entries(o) ==
  LET ks == SelectSeq(KeyOrder, LAMBDA k : KeyIn(o, k))
  IN [i \in 1..Len(ks) |-> <<ks[i], o[ks[i]]>>]

Jsx == <<"j", "s", "x">>
ObjectComponent == <<"o", "b", "j", "e", "c", "t", "-", "c", "o", "m", "p", "o", "n", "e", "n", "t">>
ImportRefTag == <<"i", "m", "p", "o", "r", "t", "R", "e", "f">>
Counter == <<"C", "o", "u", "n", "t", "e", "r">>
Missing == <<"M", "i", "s", "s", "i", "n", "g">>

Hi == <<"h", "i">>

EmptyObject == [k \in {} |-> Num(0)]

(***************************************************************************)
(* The heap of the controller process.  Objects 1..NUser are created by    *)
(* the test code and are passed to mount and update by reference; the      *)
(* objects after them are the descriptors that createComponent allocates,  *)
(* one slot per call.                                                      *)
(***************************************************************************)
NUser == 10
CounterRef == 1       \* ImportRef of an export the remote registry knows
MissingRef == 2       \* ImportRef of an export the remote registry lacks
JsxCounter == 3       \* <Counter onClick={f} label=... />
OptionsA == 4         \* { props: P, hooksConfig }
PropsP == 5           \* P = { onClick: f, label: 'hi' }, shared by the jsx and OptionsA
OptionsB == 6         \* { props: Q, slots: S }
PropsQ == 7           \* Q = { onClick: g, onChange: h, label: '__pw_func_0' }
HooksConfig == 8
JsxMissing == 9       \* <Missing />, a jsx of the export the remote registry lacks
SlotsS == 10          \* S = { default: 'hi' }
NoOptions == 0        \* the options argument left out

HeapIds == 1..(NUser + MaxCalls)
Slot(c) == NUser + c

\* The objects of the test code as the test creates them.  The label of Q is
\* a string of the test's own that begins with the token prefix.
UserHeap ==
  [i \in HeapIds |->
    CASE i = CounterRef -> [k \in {"__pw_type", "id"} |->
                              IF k = "id" THEN Str(Counter) ELSE Str(ImportRefTag)]
      [] i = MissingRef -> [k \in {"__pw_type", "id"} |->
                              IF k = "id" THEN Str(Missing) ELSE Str(ImportRefTag)]
      [] i = JsxCounter -> [k \in {"__pw_type", "type", "props"} |->
                              CASE k = "__pw_type" -> Str(Jsx)
                                [] k = "type" -> Ref(CounterRef)
                                [] OTHER -> Ref(PropsP)]
      [] i = OptionsA -> [k \in {"props", "hooksConfig"} |->
                              IF k = "props" THEN Ref(PropsP) ELSE Ref(HooksConfig)]
      [] i = PropsP -> [k \in {"onClick", "label"} |->
                              IF k = "onClick" THEN Fn("f") ELSE Str(Hi)]
      [] i = OptionsB -> [k \in {"props", "slots"} |->
                              IF k = "props" THEN Ref(PropsQ) ELSE Ref(SlotsS)]
      [] i = PropsQ -> [k \in {"onClick", "onChange", "label"} |->
                              CASE k = "onClick" -> Fn("g")
                                [] k = "onChange" -> Fn("h")
                                [] OTHER -> Str(TokenPrefix \o <<"0">>)]
      [] i = HooksConfig -> [k \in {"label"} |-> Str(Hi)]
      [] i = JsxMissing -> [k \in {"__pw_type", "type"} |->
                              IF k = "type" THEN Ref(MissingRef) ELSE Str(Jsx)]
      [] i = SlotsS -> [k \in {"default"} |-> Str(Hi)]
      [] OTHER -> EmptyObject]

\* Mutant: the options are merged into a copy of a jsx descriptor too.
createComponent_MergesIntoJsx(h, slot, component, options) ==
  LET opts == IF options = NoOptions THEN EmptyObject ELSE h[options]
      jsx == KeyIn(h[component], "__pw_type") /\ h[component]["__pw_type"] = Str(Jsx)
      own == IF jsx THEN DOMAIN h[component] ELSE {"__pw_type", "type"}
      made == [k \in own \cup DOMAIN opts |->
                IF k \in DOMAIN opts THEN opts[k]
                ELSE IF jsx THEN h[component][k]
                ELSE IF k = "__pw_type" THEN Str(ObjectComponent)
                ELSE Ref(component)]
  IN [heap |-> [h EXCEPT ![slot] = made], component |-> slot]

\* Mutant: { __pw_type, type, props: options.props }, the other options dropped.
createComponent_OnlyProps(h, slot, component, options) ==
  IF KeyIn(h[component], "__pw_type") /\ h[component]["__pw_type"] = Str(Jsx)
  THEN [heap |-> h, component |-> component]
  ELSE LET opts == IF options = NoOptions THEN EmptyObject ELSE h[options]
           made == [k \in {"__pw_type", "type"} \cup (DOMAIN opts \cap {"props"}) |->
                     IF k \in DOMAIN opts THEN opts[k]
                     ELSE IF k = "__pw_type" THEN Str(ObjectComponent)
                     ELSE Ref(component)]
       IN [heap |-> [h EXCEPT ![slot] = made], component |-> slot]

\* createComponent (mount.ts:146-154).  Returns the heap and the id of the
\* descriptor: the jsx object itself, or a new object in the slot of the call.
createComponent(h, slot, component, options) ==
  IF KeyIn(h[component], "__pw_type") /\ h[component]["__pw_type"] = Str(Jsx)
  THEN [heap |-> h, component |-> component]
  ELSE LET opts == IF options = NoOptions THEN EmptyObject ELSE h[options]
           made == [k \in {"__pw_type", "type"} \cup DOMAIN opts |->
                     IF k \in DOMAIN opts THEN opts[k]
                     ELSE IF k = "__pw_type" THEN Str(ObjectComponent)
                     ELSE Ref(component)]
       IN [heap |-> [h EXCEPT ![slot] = made], component |-> slot]

\* wrapFunctions (mount.ts:156-167).  The loop runs over the entries that
\* Object.entries returned when it started; the object is changed in place.
\* Mutant: the ordinal is taken after the push.
functionName_AfterPush(callbacks) == TokenPrefix \o NumberToString(Len(callbacks) + 1)

\* '__pw_func_' + callbacks.length (mount.ts:160)
functionName(callbacks) == TokenPrefix \o NumberToString(Len(callbacks))

RECURSIVE wrapFunctions(_, _, _)
RECURSIVE wrapEntries(_, _, _, _)
\* Mutant: the callbacks array is passed by value, the registrations made
\* inside a nested object are lost to the caller.
wrapEntries_DropsNested(h, callbacks, object, entries) ==
  IF entries = <<>> THEN [heap |-> h, callbacks |-> callbacks]
  ELSE LET key == Head(entries)[1]
           value == Head(entries)[2]
       IN IF value.t = "fn"
          THEN wrapEntries([h EXCEPT ![object][key] = Str(functionName(callbacks))],
                           Append(callbacks, value.v), object, Tail(entries))
          ELSE IF value.t = "ref"
          THEN LET inner == wrapFunctions(h, callbacks, value.v)
               IN wrapEntries(inner.heap, callbacks, object, Tail(entries))
          ELSE wrapEntries(h, callbacks, object, Tail(entries))

wrapEntries(h, callbacks, object, entries) ==
  IF entries = <<>> THEN [heap |-> h, callbacks |-> callbacks]
  ELSE LET key == Head(entries)[1]
           value == Head(entries)[2]
       IN IF value.t = "fn"
          THEN wrapEntries([h EXCEPT ![object][key] = Str(functionName(callbacks))],
                           Append(callbacks, value.v), object, Tail(entries))
          ELSE IF value.t = "ref"
          THEN LET inner == wrapFunctions(h, callbacks, value.v)
               IN wrapEntries(inner.heap, inner.callbacks, object, Tail(entries))
          ELSE wrapEntries(h, callbacks, object, Tail(entries))

wrapFunctions(h, callbacks, object) ==
  wrapEntries(h, callbacks, object, Entries(h[object]))

\* The argument of page.evaluate is serialized by value: the remote context
\* receives a copy of the object graph (mount.ts:107, :142).
RECURSIVE Serialize(_, _)
Serialize(h, object) ==
  [k \in DOMAIN h[object] |->
    IF h[object][k].t = "ref"
    THEN [t |-> "obj", v |-> Serialize(h, h[object][k].v)]
    ELSE h[object][k]]

\* unwrapFunctions (mount.ts:90-101, :118-129), on the remote copy.
RECURSIVE unwrapFunctions(_)
unwrapFunctions(object) ==
  [k \in DOMAIN object |->
    LET value == object[k]
    IN IF value.t = "str" /\ startsWith(value.v, TokenPrefix)
       THEN [t |-> "closure", v |-> ToNumber(substring(value.v, Len(TokenPrefix)))]
       ELSE IF value.t = "obj"
       THEN [t |-> "obj", v |-> unwrapFunctions(value.v)]
       ELSE value]

\* window.__pwRegistry.resolveImports: fails for an import reference that the
\* remote registry does not know.
RECURSIVE ResolvesOk(_)
ResolvesOk(object) ==
  /\ ~(KeyIn(object, "__pw_type") /\ object["__pw_type"] = Str(ImportRefTag)
        /\ object["id"] = Str(Missing))
  /\ \A k \in DOMAIN object : object[k].t = "obj" => ResolvesOk(object[k].v)

(***************************************************************************)
(* State.                                                                  *)
(***************************************************************************)
VARIABLES
  phase,                   \* "idle", "page" (page fixture set up), "test" (mount fixture in use)
  pageError,               \* the page fixture threw (mount.ts:47)
  exposed,                 \* __ct_dispatch is exposed on the page
  boundCallbacksForMount,  \* the registry (mount.ts:21)
  heap,                    \* objects of the controller process
  calls,                   \* mount / update / unmount calls of the running test
  handles,                 \* mount calls that returned a handle
  unmounted,               \* handles on which an unmount call has completed
  ready,                   \* window.playwrightMount is defined in the page
  rootCount,               \* elements with id 'root' in the remote document
  lastDispatch,            \* the run of the __ct_dispatch handler made by the last step, if any
  issued,                  \* tokens that wrapFunctions wrote in this session
  prevIssued               \* number of ordinals the previous session issued

vars == <<phase, pageError, exposed, boundCallbacksForMount, heap, calls,
          handles, unmounted, ready, rootCount, lastDispatch, issued, prevIssued>>

Ordinals == {0, 1, NaN}
ArgLists == {<<1, 2>>}
\* The (componentRef, options) pairs the test code calls mount with.
MountArgs == {<<CounterRef, OptionsA>>, <<MissingRef, OptionsB>>, <<JsxCounter, NoOptions>>}
UpdateArgs == {JsxCounter, JsxMissing, OptionsA, OptionsB}

Init ==
  /\ phase = "idle"
  /\ pageError = FALSE
  /\ exposed = FALSE
  /\ boundCallbacksForMount = <<>>
  /\ heap = UserHeap
  /\ calls = <<>>
  /\ handles = {}
  /\ unmounted = {}
  /\ ready = FALSE
  /\ rootCount = 0
  /\ lastDispatch = <<>>
  /\ issued = {}
  /\ prevIssued = 0

\* isJsxComponent (mount.ts:81-83)
isJsxComponent(h, component) ==
  KeyIn(h[component], "__pw_type") /\ h[component]["__pw_type"] = Str(Jsx)

\* The tokens one run of wrapFunctions wrote: the places that held a function
\* before it and hold a string after it.
Written(before, after, c) ==
  {[object |-> o, key |-> k, fn |-> before[o][k].v, token |-> after[o][k].v, call |-> c] :
     <<o, k>> \in {ok \in HeapIds \X {"onClick", "onChange"} :
                     /\ KeyIn(before[ok[1]], ok[2])
                     /\ before[ok[1]][ok[2]].t = "fn"
                     /\ after[ok[1]][ok[2]].t = "str"}}

Pending == {c \in DOMAIN calls : calls[c].pc # "done"}

\* The test body may make one more call.
MayCall == phase = "test" /\ Len(calls) < MaxCalls /\ Cardinality(Pending) < MaxPending

NewCall(kind, handle, componentRef, options, component, first, last) ==
  [kind |-> kind, pc |-> "start", handle |-> handle, componentRef |-> componentRef,
   options |-> options, component |-> component, input |-> EmptyObject,
   payload |-> EmptyObject,
   hooksConfig |-> <<>>, first |-> first, last |-> last, fw |-> 0, fwRoot |-> FALSE,
   result |-> "pending", resolveFailed |-> FALSE, late |-> handle \in unmounted]

(***************************************************************************)
(* The page fixture (mount.ts:45-55) and the mount fixture (mount.ts:57-78)*)
(***************************************************************************)
\* Mutant: __ct_dispatch is exposed before the configuration is checked.
PageSetup_ExposesFirst(defineConfigWasUsed) ==
  /\ phase = "idle"
  /\ lastDispatch' = <<>>
  /\ exposed' = TRUE
  /\ IF ~defineConfigWasUsed
     THEN /\ pageError' = TRUE
          /\ UNCHANGED <<phase, boundCallbacksForMount, heap, calls,
                         handles, unmounted, ready, rootCount, issued, prevIssued>>
     ELSE /\ pageError' = FALSE
          /\ UNCHANGED <<calls, handles, unmounted>>
          /\ ready' = FALSE
          /\ rootCount' = 0
          /\ heap' = UserHeap
          /\ phase' = "page"
          /\ UNCHANGED <<boundCallbacksForMount, issued, prevIssued>>

\* page fixture set-up: the configuration check, exposeFunction, goto.  The
\* navigation gives the page a new document; the test creates its objects.
PageSetup(defineConfigWasUsed) ==
  /\ phase = "idle"
  /\ lastDispatch' = <<>>
  /\ IF ~defineConfigWasUsed
     THEN /\ pageError' = TRUE
          /\ UNCHANGED <<phase, exposed, boundCallbacksForMount, heap, calls,
                         handles, unmounted, ready, rootCount, issued, prevIssued>>
     ELSE /\ pageError' = FALSE
          /\ UNCHANGED <<calls, handles, unmounted>>
          /\ exposed' = TRUE
          /\ ready' = FALSE
          /\ rootCount' = 0
          /\ heap' = UserHeap
          /\ phase' = "page"
          /\ UNCHANGED <<boundCallbacksForMount, issued, prevIssued>>

\* The deferred script of the page defines window.playwrightMount.
ScriptLoaded ==
  /\ phase \in {"page", "test"}
  /\ ~ready
  /\ ready' = TRUE
  /\ lastDispatch' = <<>>
  /\ UNCHANGED <<phase, pageError, exposed, boundCallbacksForMount, heap, calls,
                 handles, unmounted, rootCount, issued, prevIssued>>

\* mount fixture: use(mount) hands the mount function to the test body.
MountFixtureStart ==
  /\ phase = "page"
  /\ phase' = "test"
  /\ lastDispatch' = <<>>
  /\ UNCHANGED <<pageError, exposed, boundCallbacksForMount, heap, calls, handles,
                 unmounted, ready, rootCount, issued, prevIssued>>

\* Mutant: the registry is not replaced when use() returns.
MountFixtureEnd_NoReset ==
  /\ phase = "test"
  /\ phase' = "idle"
  /\ issued' = {}
  /\ prevIssued' = Len(boundCallbacksForMount)
  /\ calls' = <<>>
  /\ handles' = {}
  /\ unmounted' = {}
  /\ lastDispatch' = <<>>
  /\ UNCHANGED <<pageError, exposed, boundCallbacksForMount, heap, ready, rootCount>>

\* Mutant: the registry is replaced only when the test unmounted a component.
MountFixtureEnd_ResetIfUnmounted ==
  /\ phase = "test"
  /\ phase' = "idle"
  /\ boundCallbacksForMount' = IF unmounted # {} THEN <<>> ELSE boundCallbacksForMount
  /\ issued' = {}
  /\ prevIssued' = Len(boundCallbacksForMount)
  /\ calls' = <<>>
  /\ handles' = {}
  /\ unmounted' = {}
  /\ lastDispatch' = <<>>
  /\ UNCHANGED <<pageError, exposed, heap, ready, rootCount>>

\* mount fixture: use() returned, the registry is replaced by an empty one
\* (mount.ts:77); use(page) returns after it.  What the calls of the finished
\* test still do in its page is not followed: the next test navigates.
MountFixtureEnd ==
  /\ phase = "test"
  /\ phase' = "idle"
  /\ boundCallbacksForMount' = <<>>
  /\ issued' = {}
  /\ prevIssued' = Len(boundCallbacksForMount)
  /\ calls' = <<>>
  /\ handles' = {}
  /\ unmounted' = {}
  /\ lastDispatch' = <<>>
  /\ UNCHANGED <<pageError, exposed, heap, ready, rootCount>>

(***************************************************************************)
(* __ct_dispatch (mount.ts:49-51).                                         *)
(***************************************************************************)
\* callbacks[ordinal]: an array element, or undefined.
Lookup(callbacks, ordinal) ==
  IF ordinal \in 0..(Len(callbacks) - 1) THEN <<callbacks[ordinal + 1]>> ELSE <<>>

\* Mutant: callbacks[ordinal](args), the argument list passed as one argument.
ct_dispatch_NoSpread(callbacks, ordinal, args) ==
  LET found == Lookup(callbacks, ordinal)
  IN IF found = <<>>
     THEN [invoked |-> <<>>, threw |-> TRUE]
     ELSE [invoked |-> <<[fn |-> found[1], args |-> <<args>>]>>, threw |-> FALSE]

\* Mutant: callbacks[ordinal]?.(...args), an unknown ordinal is skipped.
ct_dispatch_Optional(callbacks, ordinal, args) ==
  LET found == Lookup(callbacks, ordinal)
  IN IF found = <<>>
     THEN [invoked |-> <<>>, threw |-> FALSE]
     ELSE [invoked |-> <<[fn |-> found[1], args |-> [i \in 1..Len(args) |-> args[i]]]>>,
           threw |-> FALSE]

\* callbacks[ordinal](...args): the invocations made and whether it threw.
ct_dispatch(callbacks, ordinal, args) ==
  LET found == Lookup(callbacks, ordinal)
  IN IF found = <<>>
     THEN [invoked |-> <<>>, threw |-> TRUE]
     ELSE [invoked |-> <<[fn |-> found[1], args |-> [i \in 1..Len(args) |-> args[i]]]>>,
           threw |-> FALSE]

\* A call of window.__ct_dispatch reaches the controller.  stale: the ordinal
\* it carries comes from a token that the previous session issued.
Dispatch(ordinal, args, stale) ==
  /\ exposed
  /\ stale => (phase = "test" /\ ordinal \in 0..(prevIssued - 1))
  /\ lastDispatch' = <<[ordinal |-> ordinal, args |-> args, stale |-> stale]
                        @@ ct_dispatch(boundCallbacksForMount, ordinal, args)>>
  /\ UNCHANGED <<phase, pageError, exposed, boundCallbacksForMount, heap, calls,
                 handles, unmounted, ready, rootCount, issued, prevIssued>>

(***************************************************************************)
(* mount (mount.ts:58-62, innerMount mount.ts:110-144).                    *)
(***************************************************************************)
\* mount(componentRef, options) up to its first await: createComponent and
\* wrapFunctions (mount.ts:111-112).
MountCall(componentRef, options) ==
  /\ MayCall
  /\ LET c == Len(calls) + 1
         made == createComponent(heap, Slot(c), componentRef, options)
         wrapped == wrapFunctions(made.heap, boundCallbacksForMount, made.component)
     IN /\ heap' = wrapped.heap
        /\ boundCallbacksForMount' = wrapped.callbacks
        /\ issued' = issued \cup Written(made.heap, wrapped.heap, c)
        /\ calls' = Append(calls,
             [NewCall("mount", 0, componentRef, options, made.component,
                      Len(boundCallbacksForMount), Len(wrapped.callbacks))
                EXCEPT !.pc = "wait",
                       !.input = Serialize(made.heap, made.component)])
  /\ lastDispatch' = <<>>
  /\ UNCHANGED <<phase, pageError, exposed, handles, unmounted, ready,
                 rootCount, prevIssued>>

\* Mutant: the transfer does not wait for window.playwrightMount.
MountTransfer_NoWait(c) ==
  /\ c \in DOMAIN calls
  /\ calls[c].kind = "mount"
  /\ calls[c].pc = "wait"
  /\ LET options == calls[c].options
         hooksConfig == IF options # NoOptions /\ KeyIn(heap[options], "hooksConfig")
                        THEN <<Serialize(heap, heap[options]["hooksConfig"].v)>>
                        ELSE <<>>
     IN calls' = [calls EXCEPT ![c].pc = "resolve",
                    ![c].payload = unwrapFunctions(Serialize(heap, calls[c].component)),
                    ![c].hooksConfig = hooksConfig]
  /\ rootCount' = IF rootCount = 0 THEN 1 ELSE rootCount
  /\ lastDispatch' = <<>>
  /\ UNCHANGED <<phase, pageError, exposed, boundCallbacksForMount, heap,
                 handles, unmounted, ready, issued, prevIssued>>

\* Mutant: the root element is created without the lookup.
MountTransfer_AlwaysCreates(c) ==
  /\ c \in DOMAIN calls
  /\ calls[c].kind = "mount"
  /\ calls[c].pc = "wait"
  /\ ready
  /\ LET options == calls[c].options
         hooksConfig == IF options # NoOptions /\ KeyIn(heap[options], "hooksConfig")
                        THEN <<Serialize(heap, heap[options]["hooksConfig"].v)>>
                        ELSE <<>>
     IN calls' = [calls EXCEPT ![c].pc = "resolve",
                    ![c].payload = unwrapFunctions(Serialize(heap, calls[c].component)),
                    ![c].hooksConfig = hooksConfig]
  /\ rootCount' = rootCount + 1
  /\ lastDispatch' = <<>>
  /\ UNCHANGED <<phase, pageError, exposed, boundCallbacksForMount, heap,
                 handles, unmounted, ready, issued, prevIssued>>

\* Mutant: the root element is not looked up or created before resolveImports.
MountTransfer_NoRoot(c) ==
  /\ c \in DOMAIN calls
  /\ calls[c].kind = "mount"
  /\ calls[c].pc = "wait"
  /\ ready
  /\ LET options == calls[c].options
         hooksConfig == IF options # NoOptions /\ KeyIn(heap[options], "hooksConfig")
                        THEN <<Serialize(heap, heap[options]["hooksConfig"].v)>>
                        ELSE <<>>
     IN calls' = [calls EXCEPT ![c].pc = "resolve",
                    ![c].payload = unwrapFunctions(Serialize(heap, calls[c].component)),
                    ![c].hooksConfig = hooksConfig]
  /\ lastDispatch' = <<>>
  /\ UNCHANGED <<phase, pageError, exposed, boundCallbacksForMount, heap,
                 handles, unmounted, ready, rootCount, issued, prevIssued>>

\* waitForFunction resolved (mount.ts:115); page.evaluate serializes
\* { component, hooksConfig: options.hooksConfig } (mount.ts:117, :142) and
\* the page runs the function up to its first await: unwrapFunctions, then
\* the root element is looked up and created when there is none
\* (mount.ts:131-137).
MountTransfer(c) ==
  /\ c \in DOMAIN calls
  /\ calls[c].kind = "mount"
  /\ calls[c].pc = "wait"
  /\ ready
  /\ LET options == calls[c].options
         hooksConfig == IF options # NoOptions /\ KeyIn(heap[options], "hooksConfig")
                        THEN <<Serialize(heap, heap[options]["hooksConfig"].v)>>
                        ELSE <<>>
     IN calls' = [calls EXCEPT ![c].pc = "resolve",
                    ![c].payload = unwrapFunctions(Serialize(heap, calls[c].component)),
                    ![c].hooksConfig = hooksConfig]
  /\ rootCount' = IF rootCount = 0 THEN 1 ELSE rootCount
  /\ lastDispatch' = <<>>
  /\ UNCHANGED <<phase, pageError, exposed, boundCallbacksForMount, heap,
                 handles, unmounted, ready, issued, prevIssued>>

\* Mutant: the failure of resolveImports is caught and the mount goes on.
RemoteMountResolve_Swallow(c) ==
  /\ c \in DOMAIN calls
  /\ calls[c].kind = "mount"
  /\ calls[c].pc = "resolve"
  /\ calls' = IF ResolvesOk(calls[c].payload)
              THEN [calls EXCEPT ![c].pc = "framework"]
              ELSE [calls EXCEPT ![c].pc = "framework", ![c].resolveFailed = TRUE]
  /\ lastDispatch' = <<>>
  /\ UNCHANGED <<phase, pageError, exposed, boundCallbacksForMount, heap,
                 handles, unmounted, ready, rootCount, issued, prevIssued>>

\* In the page: await resolveImports (mount.ts:138).  When it throws, the
\* evaluate and with it the mount call are rejected.
RemoteMountResolve(c) ==
  /\ c \in DOMAIN calls
  /\ calls[c].kind = "mount"
  /\ calls[c].pc = "resolve"
  /\ calls' = IF ResolvesOk(calls[c].payload)
              THEN [calls EXCEPT ![c].pc = "framework"]
              ELSE [calls EXCEPT ![c].pc = "done", ![c].result = "rejected",
                                 ![c].resolveFailed = TRUE]
  /\ lastDispatch' = <<>>
  /\ UNCHANGED <<phase, pageError, exposed, boundCallbacksForMount, heap,
                 handles, unmounted, ready, rootCount, issued, prevIssued>>

\* In the page: await playwrightMount(component, rootElement, hooksConfig),
\* the selector is returned and mount returns the handle (mount.ts:139-143,
\* :62-75).
RemoteFrameworkMount(c) ==
  /\ c \in DOMAIN calls
  /\ calls[c].kind = "mount"
  /\ calls[c].pc = "framework"
  /\ calls' = [calls EXCEPT ![c].pc = "done", ![c].result = "resolved",
                            ![c].fw = @ + 1, ![c].fwRoot = TRUE]
  /\ handles' = handles \cup {c}
  /\ lastDispatch' = <<>>
  /\ UNCHANGED <<phase, pageError, exposed, boundCallbacksForMount, heap,
                 unmounted, ready, rootCount, issued, prevIssued>>

(***************************************************************************)
(* update (mount.ts:70-74, innerUpdate mount.ts:85-108).                   *)
(***************************************************************************)
\* handle.update(arg) up to its first await: createComponent, wrapFunctions
\* and the serialization of { component } by page.evaluate.
UpdateCall(handle, arg) ==
  /\ MayCall
  /\ handle \in handles
  /\ LET c == Len(calls) + 1
         componentRef == IF isJsxComponent(heap, arg) THEN arg ELSE calls[handle].componentRef
         options == IF isJsxComponent(heap, arg) THEN NoOptions ELSE arg
         made == createComponent(heap, Slot(c), componentRef, options)
         wrapped == wrapFunctions(made.heap, boundCallbacksForMount, made.component)
     IN /\ heap' = wrapped.heap
        /\ boundCallbacksForMount' = wrapped.callbacks
        /\ issued' = issued \cup Written(made.heap, wrapped.heap, c)
        /\ calls' = Append(calls,
             [NewCall("update", handle, componentRef, options, made.component,
                      Len(boundCallbacksForMount), Len(wrapped.callbacks))
                EXCEPT !.pc = "remote",
                       !.input = Serialize(made.heap, made.component),
                       !.payload = Serialize(wrapped.heap, made.component)])
  /\ lastDispatch' = <<>>
  /\ UNCHANGED <<phase, pageError, exposed, handles, unmounted, ready,
                 rootCount, prevIssued>>

\* In the page: unwrapFunctions and await resolveImports (mount.ts:103-104).
RemoteUpdateResolve(c) ==
  /\ c \in DOMAIN calls
  /\ calls[c].kind = "update"
  /\ calls[c].pc = "remote"
  /\ LET component == unwrapFunctions(calls[c].payload)
     IN calls' = IF ResolvesOk(component)
                 THEN [calls EXCEPT ![c].pc = "framework", ![c].payload = component]
                 ELSE [calls EXCEPT ![c].pc = "done", ![c].payload = component,
                                    ![c].result = "rejected", ![c].resolveFailed = TRUE]
  /\ lastDispatch' = <<>>
  /\ UNCHANGED <<phase, pageError, exposed, boundCallbacksForMount, heap,
                 handles, unmounted, ready, rootCount, issued, prevIssued>>

\* In the page: the root element is looked up and passed, found or not, to
\* playwrightUpdate (mount.ts:105-106).
RemoteFrameworkUpdate(c) ==
  /\ c \in DOMAIN calls
  /\ calls[c].kind = "update"
  /\ calls[c].pc = "framework"
  /\ calls' = [calls EXCEPT ![c].pc = "done", ![c].result = "resolved",
                            ![c].fw = @ + 1, ![c].fwRoot = (rootCount > 0)]
  /\ lastDispatch' = <<>>
  /\ UNCHANGED <<phase, pageError, exposed, boundCallbacksForMount, heap,
                 handles, unmounted, ready, rootCount, issued, prevIssued>>

(***************************************************************************)
(* unmount (mount.ts:64-69).                                               *)
(***************************************************************************)
\* handle.unmount(): locator.evaluate is called.
UnmountCall(handle) ==
  /\ MayCall
  /\ handle \in handles
  /\ calls' = Append(calls,
       [NewCall("unmount", handle, calls[handle].componentRef, NoOptions, 0,
                Len(boundCallbacksForMount), Len(boundCallbacksForMount))
          EXCEPT !.pc = "remote"])
  /\ lastDispatch' = <<>>
  /\ UNCHANGED <<phase, pageError, exposed, boundCallbacksForMount, heap,
                 handles, unmounted, ready, rootCount, issued, prevIssued>>

\* window.playwrightUnmount(rootElement): the framework stub takes the
\* component down; the root node is detached from the document, or the stub
\* leaves the emptied node where it is.  The numbers of root nodes it may leave.
playwrightUnmount(count) == {0, count}

\* Mutant: the evaluate returns without the call of playwrightUnmount.
RemoteUnmount_NoCall(c) ==
  /\ c \in DOMAIN calls
  /\ calls[c].kind = "unmount"
  /\ calls[c].pc = "remote"
  /\ rootCount > 0
  /\ calls' = [calls EXCEPT ![c].pc = "done", ![c].result = "resolved"]
  /\ unmounted' = unmounted \cup {calls[c].handle}
  /\ lastDispatch' = <<>>
  /\ UNCHANGED <<phase, pageError, exposed, boundCallbacksForMount, heap,
                 handles, ready, rootCount, issued, prevIssued>>

\* Mutant: the unmount empties the registry.
RemoteUnmount_ResetsRegistry(c) ==
  /\ c \in DOMAIN calls
  /\ calls[c].kind = "unmount"
  /\ calls[c].pc = "remote"
  /\ rootCount > 0
  /\ calls' = [calls EXCEPT ![c].pc = "done", ![c].result = "resolved",
                            ![c].fw = @ + 1, ![c].fwRoot = TRUE]
  /\ rootCount' \in playwrightUnmount(rootCount)
  /\ unmounted' = unmounted \cup {calls[c].handle}
  /\ boundCallbacksForMount' = <<>>
  /\ lastDispatch' = <<>>
  /\ UNCHANGED <<phase, pageError, exposed, heap, handles, ready, issued, prevIssued>>

\* In the page, once the locator of the handle has found its element under
\* '#root': playwrightUnmount(rootElement) (mount.ts:65-68).
RemoteUnmount(c) ==
  /\ c \in DOMAIN calls
  /\ calls[c].kind = "unmount"
  /\ calls[c].pc = "remote"
  /\ rootCount > 0
  /\ calls' = [calls EXCEPT ![c].pc = "done", ![c].result = "resolved",
                            ![c].fw = @ + 1, ![c].fwRoot = TRUE]
  /\ rootCount' \in playwrightUnmount(rootCount)
  /\ unmounted' = unmounted \cup {calls[c].handle}
  /\ lastDispatch' = <<>>
  /\ UNCHANGED <<phase, pageError, exposed, boundCallbacksForMount, heap,
                 handles, ready, issued, prevIssued>>

Next ==
  \/ \E used \in BOOLEAN : PageSetup(used)
  \/ ScriptLoaded
  \/ MountFixtureStart
  \/ MountFixtureEnd
  \/ \E a \in MountArgs : MountCall(a[1], a[2])
  \/ \E c \in 1..MaxCalls : MountTransfer(c)
  \/ \E c \in 1..MaxCalls : RemoteMountResolve(c)
  \/ \E c \in 1..MaxCalls : RemoteFrameworkMount(c)
  \/ \E handle \in 1..MaxCalls, arg \in UpdateArgs : UpdateCall(handle, arg)
  \/ \E c \in 1..MaxCalls : RemoteUpdateResolve(c)
  \/ \E c \in 1..MaxCalls : RemoteFrameworkUpdate(c)
  \/ \E handle \in 1..MaxCalls : UnmountCall(handle)
  \/ \E c \in 1..MaxCalls : RemoteUnmount(c)

Spec == Init /\ [][Next]_vars

\* The test body awaits each of its calls before it makes the next one, and
\* the page calls window.__ct_dispatch at any moment.
DispatchNext ==
  \/ Next /\ Cardinality({c \in DOMAIN calls' : calls'[c].pc # "done"}) <= 1
  \/ \E ordinal \in Ordinals, args \in ArgLists, stale \in BOOLEAN :
       Dispatch(ordinal, args, stale)

DispatchSpec == Init /\ [][DispatchNext]_vars

(***************************************************************************)
(* Properties.                                                             *)
(***************************************************************************)
\* The ordinal a token string carries, as unwrapFunctions reads it.
TokenOrdinal(token) == ToNumber(substring(token, Len(TokenPrefix)))

Registered == 0..(Len(boundCallbacksForMount) - 1)

\* C1: within a session every callable that wrapFunctions replaced got a
\* token made of the prefix and the registry index at which that callable
\* was appended; the tokens issued in the session are pairwise distinct.
C1_TokenIsRegistryIndex ==
  \A e \in issued :
    /\ startsWith(e.token, TokenPrefix)
    /\ TokenOrdinal(e.token) \in Registered
    /\ boundCallbacksForMount[TokenOrdinal(e.token) + 1] = e.fn
    /\ \A e2 \in issued : e2.token = e.token => e2 = e

\* Three callbacks were replaced in one session, by a mount and by an update.
C1_Witness ==
  /\ Cardinality(issued) = 3
  /\ \E e1, e2 \in issued : calls[e1.call].kind = "mount" /\ calls[e2.call].kind = "update"

\* C2: a dispatch of an ordinal registered in the session invokes the
\* callback that was registered at that ordinal, once, with the arguments
\* of args in their order, and nothing else.
C2_DispatchInvokesOriginal ==
  \A i \in DOMAIN lastDispatch :
    LET d == lastDispatch[i]
    IN (\E e \in issued : TokenOrdinal(e.token) = d.ordinal) =>
         /\ ~d.threw
         /\ Len(d.invoked) = 1
         /\ d.invoked[1].args = d.args
         /\ \A e \in issued : TokenOrdinal(e.token) = d.ordinal => d.invoked[1].fn = e.fn

\* The second of three registered callbacks was dispatched with two arguments.
C2_Witness ==
  \E i \in DOMAIN lastDispatch :
    /\ lastDispatch[i].ordinal = 1
    /\ lastDispatch[i].args = <<1, 2>>
    /\ Len(lastDispatch[i].invoked) = 1
    /\ Cardinality(issued) = 3

\* C3: a dispatch of an ordinal that the session never registered throws
\* and invokes no callback.
C3_UnknownOrdinalThrows ==
  \A i \in DOMAIN lastDispatch :
    LET d == lastDispatch[i]
    IN ~(\E e \in issued : TokenOrdinal(e.token) = d.ordinal) =>
         d.threw /\ d.invoked = <<>>

\* An ordinal past the one callback of the running session was dispatched.
C3_Witness ==
  \E i \in DOMAIN lastDispatch :
    /\ phase = "test"
    /\ Len(boundCallbacksForMount) = 1
    /\ lastDispatch[i].ordinal = 1
    /\ lastDispatch[i].threw

\* C4: a dispatch that carries an ordinal issued in the previous session and
\* arrives in the next one invokes no callback of the next session.
C4_StaleOrdinalInvokesNothing ==
  \A i \in DOMAIN lastDispatch : lastDispatch[i].stale => lastDispatch[i].invoked = <<>>

\* C5: the remote document never holds more than one root node, and a root
\* node is only ever created by a mount that found none; no update step and
\* no later mount adds one.
C5_SingleRootNode ==
  /\ [](rootCount <= 1)
  /\ [][rootCount' > rootCount =>
          /\ rootCount = 0
          /\ \E c \in DOMAIN calls :
               /\ calls[c].kind = "mount"
               /\ calls[c].pc = "wait"
               /\ calls'[c].pc = "resolve"]_vars

\* Two mounts and an update have gone through the page, with one root node.
C5_Witness ==
  /\ rootCount = 1
  /\ \E c1, c2, c3 \in DOMAIN calls :
       /\ c1 # c2
       /\ calls[c1].kind = "mount" /\ calls[c1].pc = "done" /\ calls[c1].fw = 1
       /\ calls[c2].kind = "mount" /\ calls[c2].pc = "done" /\ calls[c2].fw = 1
       /\ calls[c3].kind = "update" /\ calls[c3].pc = "done" /\ calls[c3].fw = 1

\* The ordinals that stand for callbacks in a transferred component: the
\* tokens, or after unwrapFunctions the closures, under the callback props.
RECURSIVE CallbackOrdinals(_)
CallbackOrdinals(object) ==
  UNION {IF object[k].t = "obj" THEN CallbackOrdinals(object[k].v)
         ELSE IF k \in {"onClick", "onChange"}
         THEN {IF object[k].t = "str" THEN TokenOrdinal(object[k].v) ELSE object[k].v}
         ELSE {} : k \in DOMAIN object}

\* C6: every callback in the component that an update call transfers is
\* represented by an ordinal allocated during that update call.
C6_UpdateMarshalsFresh ==
  \A c \in DOMAIN calls :
    calls[c].kind = "update" =>
      CallbackOrdinals(calls[c].payload) \subseteq (calls[c].first)..(calls[c].last - 1)

RECURSIVE NoFunction(_)
NoFunction(object) ==
  \A k \in DOMAIN object :
    IF object[k].t = "obj" THEN NoFunction(object[k].v) ELSE object[k].t # "fn"

\* C7: a mount call has built and marshalled its descriptor before it waits,
\* and nothing of it reaches the page before window.playwrightMount is
\* defined: no transfer, no root node, no framework mount, no result.
C7_MountWaitsForReadiness ==
  /\ \A c \in DOMAIN calls :
       calls[c].kind = "mount" =>
         /\ calls[c].pc = "wait" =>
              /\ NoFunction(Serialize(heap, calls[c].component))
              /\ calls[c].payload = EmptyObject
         /\ calls[c].pc # "wait" => ready
         /\ ~ready => calls[c].fw = 0 /\ calls[c].result = "pending"
  /\ rootCount > 0 => ready

\* A mount call that registered a callback waits while the page is not ready.
C7_Witness ==
  /\ ~ready
  /\ rootCount = 0
  /\ \E c \in DOMAIN calls :
       calls[c].kind = "mount" /\ calls[c].pc = "wait" /\ calls[c].last > calls[c].first

UnmountCompletes ==
  \E c \in DOMAIN calls :
    /\ c \in DOMAIN calls'
    /\ calls[c].kind = "unmount"
    /\ calls[c].pc # "done"
    /\ calls'[c].pc = "done"

C10_ResolutionFailureRejects ==
  \A c \in DOMAIN calls :
    /\ calls[c].resolveFailed =>
         /\ calls[c].result = "rejected"
         /\ calls[c].fw = 0
         /\ c \notin handles
    /\ c \in handles => calls[c].kind = "mount" /\ calls[c].result = "resolved"

\* A mount and an update have both failed to resolve.
C10_Witness ==
  \E c1, c2 \in DOMAIN calls :
    /\ calls[c1].kind = "mount" /\ calls[c1].resolveFailed
    /\ calls[c2].kind = "update" /\ calls[c2].resolveFailed

\* C11: a page set-up that finds the configuration missing fails and does
\* nothing else: __ct_dispatch is not exposed by it, the page is not
\* navigated (no new document, no phase change), and the page is never
\* handed to the test body, so no mount fixture and no call follows it.
C11_MissingConfigFailsFirst ==
  /\ [](pageError => (phase = "idle" /\ calls = <<>>))
  /\ [][(phase = "idle" /\ pageError') =>
          /\ phase' = "idle"
          /\ exposed' = exposed
          /\ ready' = ready
          /\ rootCount' = rootCount
          /\ heap' = heap
          /\ boundCallbacksForMount' = boundCallbacksForMount]_vars

\* The set-up of the first page has failed: nothing is exposed.
C11_Witness ==
  /\ pageError
  /\ ~exposed
  /\ phase = "idle"

\* The slot in which the next call of the test would allocate its descriptor.
NextSlot == Slot(Len(calls) + 1)

\* C12: wherever the test may make a call, createComponent of a jsx
\* descriptor returns the descriptor itself, allocates nothing and changes no
\* object, whatever the options are; the calls made with a jsx component
\* reference hold that reference as their descriptor.
C12_DeclarativeReturnedAsIs ==
  /\ MayCall =>
       \A component \in 1..NUser, options \in 0..NUser :
         isJsxComponent(heap, component) =>
           createComponent(heap, NextSlot, component, options)
             = [heap |-> heap, component |-> component]
  /\ \A c \in DOMAIN calls :
       (calls[c].kind \in {"mount", "update"} /\ isJsxComponent(heap, calls[c].componentRef)) =>
         /\ calls[c].component = calls[c].componentRef
         /\ heap[Slot(c)] = EmptyObject

\* An update with an options patch was made on a handle mounted from a jsx.
C12_Witness ==
  \E c \in DOMAIN calls :
    /\ calls[c].kind = "update"
    /\ calls[c].options = OptionsB
    /\ calls[c].componentRef = JsxCounter
    /\ calls[c].component = JsxCounter

\* The fields of ObjectComponentOptions & MountOptions that the model uses.
OptionKeys == {"props", "slots", "hooksConfig"}

IsImportRef(h, ref) ==
  KeyIn(h[ref], "__pw_type") /\ h[ref]["__pw_type"] = Str(ImportRefTag)

Unmarshalled(c) ==
  \/ calls[c].kind = "mount" /\ calls[c].pc \in {"resolve", "framework", "done"}
  \/ calls[c].kind = "update" /\ calls[c].pc \in {"framework", "done"}

\* The number of functions in an object graph.
RECURSIVE FnCount(_)
FnCount(object) ==
  LET RECURSIVE Sum(_)
      Sum(ks) == IF ks = {} THEN 0
                 ELSE LET k == CHOOSE x \in ks : TRUE
                          n == IF object[k].t = "fn" THEN 1
                               ELSE IF object[k].t = "obj" THEN FnCount(object[k].v)
                               ELSE 0
                      IN n + Sum(ks \ {k})
  IN Sum(DOMAIN object)

\* after is before with each function replaced by a closure that dispatches
\* the ordinal at which the registry holds that function, and nothing else
\* changed.
RECURSIVE RoundTrip(_, _)
RoundTrip(before, after) ==
  /\ DOMAIN after = DOMAIN before
  /\ \A k \in DOMAIN before :
       IF before[k].t = "fn"
       THEN /\ after[k].t = "closure"
            /\ after[k].v \in Registered
            /\ boundCallbacksForMount[after[k].v + 1] = before[k].v
       ELSE IF before[k].t = "obj"
       THEN after[k].t = "obj" /\ RoundTrip(before[k].v, after[k].v)
       ELSE after[k] = before[k]

\* C14: the component that a mount or update call un-marshals in the page is
\* the descriptor the call built, with its N functions replaced by closures
\* that dispatch the N ordinals the call registered them at, and with every
\* other value, the strings included, as it was.
C14_RoundTrip ==
  \A c \in DOMAIN calls :
    Unmarshalled(c) =>
      /\ calls[c].last - calls[c].first = FnCount(calls[c].input)
      /\ RoundTrip(calls[c].input, calls[c].payload)

\* C15: while no mount fixture is in use, and when one has started and the
\* test has made no call yet, the registry is empty and no token is issued,
\* whatever the sessions before did.
C15_RegistryEmptyAtSessionStart ==
  (phase \in {"idle", "page"} \/ (phase = "test" /\ calls = <<>>)) =>
    (boundCallbacksForMount = <<>> /\ issued = {})

\* A session starts after one that registered three callbacks.
C15_Witness ==
  /\ phase = "test"
  /\ calls = <<>>
  /\ prevIssued = 3

\* C16: an update call made with an options patch transfers a descriptor
\* that stands for the component reference of the handle's mount call and
\* has the fields of the patch; an update call made with a jsx transfers
\* that jsx; no hooksConfig goes with either.
C16_UpdateTransfers ==
  \A c \in DOMAIN calls :
    calls[c].kind = "update" =>
      LET sent == unwrapFunctions(calls[c].payload)
          original == [t |-> "obj",
                       v |-> unwrapFunctions(
                               Serialize(heap, calls[calls[c].handle].componentRef))]
      IN /\ calls[c].hooksConfig = <<>>
         /\ IF calls[c].options = NoOptions
            THEN sent = unwrapFunctions(Serialize(heap, calls[c].componentRef))
            ELSE LET patch == unwrapFunctions(Serialize(heap, calls[c].options))
                 IN /\ (KeyIn(sent, "type") /\ sent["type"] = original) \/ sent = original.v
                    /\ \A k \in DOMAIN patch : KeyIn(sent, k) /\ sent[k] = patch[k]

\* C17 as stated: a root node exists only once the reference resolution of
\* a mount of the session has succeeded, and playwrightMount is invoked only
\* after a successful resolution, on the root node.
C17_RootAfterResolution ==
  /\ (phase = "test" /\ rootCount > 0) =>
       \E c \in DOMAIN calls :
         /\ calls[c].kind = "mount"
         /\ calls[c].pc \in {"framework", "done"}
         /\ ~calls[c].resolveFailed
  /\ \A c \in DOMAIN calls :
       (calls[c].kind = "mount" /\ calls[c].fw > 0) =>
         (~calls[c].resolveFailed /\ calls[c].fwRoot)

RECURSIVE NoToken(_)
NoToken(object) ==
  \A k \in DOMAIN object :
    IF object[k].t = "obj" THEN NoToken(object[k].v)
    ELSE ~(object[k].t = "str" /\ startsWith(object[k].v, TokenPrefix))

\* C17, amended: in the page a mount un-marshals, ensures the root node,
\* resolves the references and invokes playwrightMount, in this order: while
\* the resolution is still to come the component is un-marshalled and the
\* root node is there (as long as no unmount has completed), a failed
\* resolution leaves the root node in place, and playwrightMount is invoked
\* once, on the root node, with a component that resolved.
C17_RootBeforeResolution ==
  \A c \in DOMAIN calls :
    calls[c].kind = "mount" =>
      /\ calls[c].pc = "wait" => calls[c].payload = EmptyObject
      /\ calls[c].pc \in {"resolve", "framework", "done"} =>
           /\ NoToken(calls[c].payload)
           /\ unmounted = {} => rootCount = 1
      /\ calls[c].pc \in {"wait", "resolve", "framework"} => calls[c].fw = 0
      /\ calls[c].pc = "framework" => ResolvesOk(calls[c].payload)
      /\ calls[c].fw > 0 =>
           /\ calls[c].fw = 1
           /\ calls[c].fwRoot
           /\ ResolvesOk(calls[c].payload)
           /\ ~calls[c].resolveFailed

\* The only mount of a page failed to resolve without a call of
\* playwrightMount, and the root node it created is in the document.
C17_Witness ==
  /\ rootCount = 1
  /\ Len(calls) = 1
  /\ calls[1].kind = "mount"
  /\ calls[1].resolveFailed
  /\ calls[1].fw = 0

\* C18: an update call that found no root node in the page has not invoked
\* playwrightUpdate and is rejected, by a failure that is not a resolution
\* failure; no update step creates a root node.
C18_UpdateNeedsRoot ==
  \A c \in DOMAIN calls :
    (/\ calls[c].kind = "update"
     /\ calls[c].pc = "done"
     /\ ~calls[c].resolveFailed
     /\ ~calls[c].fwRoot) =>
       (calls[c].fw = 0 /\ calls[c].result = "rejected")

\* C19: while a mount fixture is in use every step leaves the entries of
\* the registry where they are and at most appends to them, and a dispatch
\* of an ordinal that a call of the session issued invokes the callback that
\* was registered under it, whatever has happened to that call and its
\* handle since.
C19_RegistryAppendOnly ==
  /\ [][(phase = "test" /\ phase' = "test") =>
          /\ Len(boundCallbacksForMount') >= Len(boundCallbacksForMount)
          /\ SubSeq(boundCallbacksForMount', 1, Len(boundCallbacksForMount))
               = boundCallbacksForMount]_vars
  /\ [](\A i \in DOMAIN lastDispatch, e \in issued :
          TokenOrdinal(e.token) = lastDispatch[i].ordinal =>
            /\ Len(lastDispatch[i].invoked) = 1
            /\ lastDispatch[i].invoked[1].fn = e.fn)

\* The callback of a mount is dispatched after the unmount of its handle has
\* completed and while an update that registered callbacks is in flight.
C19_Witness ==
  \E i \in DOMAIN lastDispatch, e \in issued, c1, c2 \in DOMAIN calls :
    /\ TokenOrdinal(e.token) = lastDispatch[i].ordinal
    /\ calls[e.call].kind = "mount"
    /\ calls[c1].kind = "unmount" /\ calls[c1].pc = "done" /\ calls[c1].handle = e.call
    /\ calls[c2].kind = "update" /\ calls[c2].pc = "remote"
    /\ calls[c2].last > calls[c2].first
    /\ Len(lastDispatch[i].invoked) = 1

\* The ordinals of the tokens that call c wrote.
IssuedBy(c) == {TokenOrdinal(e.token) : e \in {x \in issued : x.call = c}}

\* C20: the tokens that a call wrote carry exactly the ordinals of the range
\* of the registry that the call appended, first..last-1, the registry holds
\* the call's callbacks there, and the ranges of two calls are disjoint,
\* however the calls overlap.
C20_DisjointContiguousRanges ==
  /\ \A c \in DOMAIN calls :
       /\ IssuedBy(c) = (calls[c].first)..(calls[c].last - 1)
       /\ calls[c].last <= Len(boundCallbacksForMount)
       /\ \A e \in issued :
            e.call = c => boundCallbacksForMount[TokenOrdinal(e.token) + 1] = e.fn
  /\ \A c1, c2 \in DOMAIN calls :
       c1 # c2 => IssuedBy(c1) \cap IssuedBy(c2) = {}

\* Two mounts that both registered callbacks are in flight at the same time.
C20_Witness ==
  \E c1, c2 \in DOMAIN calls :
    /\ c1 # c2
    /\ calls[c1].pc # "done" /\ calls[c1].last > calls[c1].first
    /\ calls[c2].pc # "done" /\ calls[c2].last - calls[c2].first = 2

====
